---- MODULE Spec2Model ----
(***************************************************************************)
(* Model of the performance-tracker dashboard: the summary metrics of the  *)
(* PerformanceTracker page (entry aggregator) and its tip fetcher.         *)
(*                                                                         *)
(* Encoding of the data.  A validated numeric form field is a decimal      *)
(* string; the model represents such a string by the number it denotes:    *)
(* a whole-number field ("10") by the natural 10, a dollar field ("2.50")  *)
(* by its number of hundredths, 250.  Number(...) turns it into a          *)
(* JavaScript Number, an IEEE-754 binary64; the model keeps binary64       *)
(* values exactly, as fixed-point numbers made of limbs, and every         *)
(* arithmetic step rounds to 53 significant bits, ties to even, as the     *)
(* hardware does.  Strings shown to the user are TLA+ strings.             *)
(***************************************************************************)
EXTENDS Integers, Naturals, Sequences, FiniteSets, TLC

VARIABLES
  variant,          \* which PerformanceTracker page is built: "store" or "local"
  mounted,          \* the mount effects have run
  loading,          \* useState(true): the initial load is outstanding
  entries,          \* useState<Entry[]>: the in-memory entry list, index 0 first
  tip,              \* useState<string>: the tip text, as the parts concatenated
  isLoadingTip,     \* useState<boolean>
  summary,          \* what the summary and latest-entry cards show
  store,            \* rows of the "entries" table, newest first
  saved,            \* localStorage item "entries" of the local-storage page
  inserts,          \* insert requests under way
  deletes,          \* delete requests under way
  tipInFlight,      \* tip requests sent and not yet answered
  unhandled,        \* some promise was rejected with no handler
  form,             \* the values the form holds (react-hook-form)
  alerts,           \* the texts shown with window.alert so far
  consoleErrors,    \* the messages written with console.error so far
  tipRequests,      \* number of tip requests ever sent
  nonEmptyChanges,  \* number of changes of entries to a non-empty list
  tipFrom,          \* id of the tip request whose response the tip shows, 0 if none
  submits,          \* number of submissions so far
  clears,           \* number of clear-all clicks so far
  deployment,       \* which login endpoint serves /api/login: "express" or "vercel"
  location,         \* the page the router renders: "/login" or "/tracker"
  authToken,        \* localStorage item "authToken": <<>> (null) or <<value>>
  loginPage,        \* number of the Login component instance that is mounted
  username,         \* useState(""): the username input of the Login page
  password,         \* useState(""): the password input of the Login page
  loginError,       \* useState<string | null>: <<>> (null) or <<message>>
  logins,           \* login requests sent and not yet answered
  loginAttempts,    \* number of login requests ever sent
  apiRequest,       \* a request made of the login endpoint itself, <<>> if none
  apiAnswer         \* the endpoint's answer to it, <<>> before it answers

pageVars == <<mounted, loading, entries, tip, isLoadingTip, unhandled>>
storeVars == <<store, saved, inserts, deletes>>
noticeVars == <<alerts, consoleErrors>>
browserVars == <<location, authToken, loginPage, username, password, loginError,
                 logins, loginAttempts>>
apiVars == <<apiRequest, apiAnswer>>
authVars == <<deployment, browserVars, apiVars>>
tipVars == <<tipInFlight, tipRequests, nonEmptyChanges, tipFrom>>
vars == <<variant, mounted, loading, entries, tip, isLoadingTip, summary, store, saved,
          inserts, deletes, tipInFlight, unhandled, tipRequests, nonEmptyChanges,
          tipFrom, submits, clears, form, alerts, consoleErrors, deployment, location, authToken, loginPage, username, password,
          loginError, logins, loginAttempts, apiRequest, apiAnswer>>

(***************************************************************************)
(* Bounds of the model.                                                    *)
(***************************************************************************)
MaxEntries == 4
MaxStoredRows == 1
MaxSavedEntries == 1
MaxOps == 2

(***************************************************************************)
(* JavaScript Number (IEEE-754 binary64), non-negative finite values.      *)
(* A value x is the sequence of NumLimbs limbs, least significant first,   *)
(* of the natural x * 2^FracBits; every binary64 value that occurs is a    *)
(* multiple of 2^-FracBits, so the representation is exact.                *)
(***************************************************************************)
MantissaBits == 53
LimbBits == 20
FracLimbs == 5
NumLimbs == FracLimbs + 1
LimbBase == 2 ^ LimbBits
FracBits == FracLimbs * LimbBits

\* limbs i..NumLimbs of the vector holding v in limb pos and 0 elsewhere
RECURSIVE FixUnitFrom(_, _, _)
FixUnitFrom(pos, v, i) ==
  IF i > NumLimbs THEN <<>>
  ELSE <<IF i = pos THEN v ELSE 0>> \o FixUnitFrom(pos, v, i + 1)

FixZero == FixUnitFrom(NumLimbs, 0, 1)

\* the Number whose value is the natural n
FixOfInt(n) == FixUnitFrom(NumLimbs, n, 1)

\* 2^s as a fixed-point limb vector (s counts bits from the least significant)
FixPow2(s) == FixUnitFrom((s \div LimbBits) + 1, 2 ^ (s % LimbBits), 1)

RECURSIVE FixAddFrom(_, _, _, _)
FixAddFrom(a, b, i, carry) ==
  IF i > NumLimbs THEN <<>>
  ELSE LET s == a[i] + b[i] + carry
       IN  <<s % LimbBase>> \o FixAddFrom(a, b, i + 1, s \div LimbBase)

\* exact sum
FixAdd(a, b) == FixAddFrom(a, b, 1, 0)

RECURSIVE FixMulFrom(_, _, _, _)
FixMulFrom(a, m, i, carry) ==
  IF i > NumLimbs THEN <<>>
  ELSE LET s == a[i] * m + carry
       IN  <<s % LimbBase>> \o FixMulFrom(a, m, i + 1, s \div LimbBase)

\* exact product with a small natural
FixMulSmall(a, m) == FixMulFrom(a, m, 1, 0)

\* long division of limbs i..1 with the remainder rem carried in from above;
\* hi holds the quotient limbs most significant first
RECURSIVE FixDivFrom(_, _, _, _)
FixDivFrom(a, d, i, rem) ==
  IF i = 0 THEN [hi |-> <<>>, r |-> rem]
  ELSE LET cur  == rem * LimbBase + a[i]
           rest == FixDivFrom(a, d, i - 1, cur % d)
       IN  [hi |-> <<cur \div d>> \o rest.hi, r |-> rest.r]

\* quotient (truncated to FracBits fraction bits) and remainder by a small natural
FixDivSmall(a, d) ==
  LET qr == FixDivFrom(a, d, NumLimbs, 0)
  IN  [q |-> [i \in 1..NumLimbs |-> qr.hi[NumLimbs + 1 - i]], r |-> qr.r]

\* the number of bits of a limb n
BitLenNat(n) == CHOOSE k \in 0..LimbBits : n < 2 ^ k /\ (k = 0 \/ n >= 2 ^ (k - 1))

RECURSIVE FixBitLenFrom(_, _)
FixBitLenFrom(a, i) ==
  IF i = 0 THEN 0
  ELSE IF a[i] # 0 THEN (i - 1) * LimbBits + BitLenNat(a[i])
  ELSE FixBitLenFrom(a, i - 1)

FixBitLen(a) == FixBitLenFrom(a, NumLimbs)

FixBit(a, k) == (a[(k \div LimbBits) + 1] \div (2 ^ (k % LimbBits))) % 2

\* some bit below bit k is set
FixAnyBelow(a, k) ==
  \/ \E i \in 1..(k \div LimbBits) : a[i] # 0
  \/ a[(k \div LimbBits) + 1] % (2 ^ (k % LimbBits)) # 0

RECURSIVE FixClearBelowFrom(_, _, _)
FixClearBelowFrom(a, k, i) ==
  IF i > NumLimbs THEN <<>>
  ELSE <<IF i < (k \div LimbBits) + 1 THEN 0
         ELSE IF i = (k \div LimbBits) + 1
              THEN (a[i] \div (2 ^ (k % LimbBits))) * (2 ^ (k % LimbBits))
              ELSE a[i]>> \o FixClearBelowFrom(a, k, i + 1)

\* a with the bits below bit k cleared
FixClearBelow(a, k) == FixClearBelowFrom(a, k, 1)

\* a rounded at bit s: the bits below bit s dropped, to nearest, ties to even
RoundAtBit(a, sticky, s) ==
  IF s <= 0 THEN a
  ELSE LET guard == FixBit(a, s - 1)
           rest  == sticky \/ FixAnyBelow(a, s - 1)
           odd   == FixBit(a, s)
           t     == FixClearBelow(a, s)
       IN  IF guard = 1 /\ (rest \/ odd = 1) THEN FixAdd(t, FixPow2(s)) ELSE t

\* round an exact result (a, plus a non-zero tail below the last limb when
\* sticky) to the nearest binary64, ties to even; the operand is a value
\* before the operation runs
RoundToDouble(a, sticky) ==
  CHOOSE r \in {RoundAtBit(v, sticky, FixBitLen(v) - MantissaBits) : v \in {a}} : TRUE

\* a + b of two Numbers
DoubleAdd(a, b) == RoundToDouble(FixAdd(a, b), FALSE)

\* a / d of a Number by a Number whose value is the positive natural d
DoubleDiv(a, d) ==
  LET qr == FixDivSmall(a, d) IN RoundToDouble(qr.q, qr.r # 0)

DoubleMul_dropped(a, m) == a

\* a * m of a Number by a Number whose value is the natural m
DoubleMul(a, m) == RoundToDouble(FixMulSmall(a, m), FALSE)

\* the natural a Number holds (the totals of whole-number fields are integral)
DoubleInt(a) == a[NumLimbs]

\* Number("d.dd") of a dollar string given by its hundredths: the binary64
\* nearest to cents / 100
NumberOfCents(cents) == DoubleDiv(FixOfInt(cents), 100)

\* Number("d") of a whole-number string
NumberOfInt(n) == FixOfInt(n)

RECURSIVE DigitString(_, _)
DigitString(n, k) ==
  IF k = 0 THEN "" ELSE DigitString(n \div 10, k - 1) \o ToString(n % 10)

\* the natural n with n / 10^digits nearest to x, the larger one on a tie
\* (Number.prototype.toFixed, step "let n be an integer for which
\* n / 10^f - x is as close to zero as possible")
ToFixedInt(x, digits) ==
  CHOOSE n \in {FixAdd(FixMulSmall(v, 10 ^ digits), FixPow2(FracBits - 1))[NumLimbs] :
                  v \in {x}} : TRUE

\* x.toFixed(digits)
ToFixed(x, digits) ==
  LET n == ToFixedInt(x, digits)
  IN  ToString(n \div (10 ^ digits)) \o "." \o DigitString(n % (10 ^ digits), digits)

(***************************************************************************)
(* Entries.  The pool holds the form values that the model submits.        *)
(***************************************************************************)
WholeFields == {"voiceLines", "bts", "iot", "hsi", "protection"}
DollarFields == {"accessories", "mrc"}

Entry(date, voiceLines, bts, iot, hsi, accessories, protection, planName, mrc) ==
  [date |-> date, voiceLines |-> voiceLines, bts |-> bts, iot |-> iot, hsi |-> hsi,
   accessories |-> accessories, protection |-> protection, planName |-> planName,
   mrc |-> mrc]

EntryPool ==
  { Entry("2024-01-01", 10, 5, 0, 0, 250, 3, "X", 5000),
    Entry("2024-01-02", 0, 0, 0, 0, 0, 2, "Zero", 0),
    Entry("2024-01-03", 0, 0, 1, 0, 1, 0, "Cent", 1),
    Entry("2024-01-04", 80, 0, 0, 0, 4, 23, "Tie", 4),
    Entry("2024-01-05", 1, 2, 3, 4, 1999, 1, "Mix", 3333) }

RECURSIVE SeqsUpTo(_, _)
SeqsUpTo(S, n) ==
  IF n = 0 THEN {<<>>}
  ELSE LET shorter == SeqsUpTo(S, n - 1)
       IN  shorter \cup {Append(q, x) : q \in {r \in shorter : Len(r) = n - 1}, x \in S}

\* Number(e.field)
NumberOfField(e, field) ==
  IF field \in DollarFields THEN NumberOfCents(e[field]) ELSE NumberOfInt(e[field])

\* es.reduce((sum, e) => sum + Number(e.field), 0) over the first k entries
RECURSIVE ReduceSum(_, _, _)
ReduceSum(es, field, k) ==
  IF k = 0 THEN FixZero
  ELSE CHOOSE next \in {DoubleAdd(sum, NumberOfField(e, field)) :
                          sum \in {ReduceSum(es, field, k - 1)}, e \in {es[k]}} : TRUE

(***************************************************************************)
(* Summary metrics of the PerformanceTracker page.                         *)
(***************************************************************************)
totalVoiceLines(es) == ReduceSum(es, "voiceLines", Len(es))
totalBts(es) == ReduceSum(es, "bts", Len(es))
totalIot(es) == ReduceSum(es, "iot", Len(es))
totalHsi(es) == ReduceSum(es, "hsi", Len(es))

totalLines_noHsi(es) ==
  CHOOSE lines \in {DoubleAdd(DoubleAdd(voice, bts), iot) :
                      voice \in {totalVoiceLines(es)}, bts \in {totalBts(es)},
                      iot \in {totalIot(es)}} : TRUE

\* the constants are computed one after the other, each before it is used
totalLines(es) ==
  CHOOSE lines \in {DoubleAdd(DoubleAdd(DoubleAdd(voice, bts), iot), hsi) :
                      voice \in {totalVoiceLines(es)}, bts \in {totalBts(es)},
                      iot \in {totalIot(es)}, hsi \in {totalHsi(es)}} : TRUE

totalAccessories(es) == ReduceSum(es, "accessories", Len(es))
totalProtection(es) == ReduceSum(es, "protection", Len(es))

protectionPercent_truncated(es) ==
  CHOOSE shown \in
    {IF lines > 0
     THEN LET x == DoubleMul(DoubleDiv(protection, lines), 100)
              n == FixMulSmall(x, 10)[NumLimbs]
          IN  ToString(n \div 10) \o "." \o ToString(n % 10) \o "%"
     ELSE "0.0%" :
       lines \in {DoubleInt(totalLines(es))}, protection \in {totalProtection(es)}} : TRUE

protectionPercent(es) ==
  CHOOSE shown \in
    {IF lines > 0
     THEN ToFixed(DoubleMul(DoubleDiv(protection, lines), 100), 1) \o "%"
     ELSE "0.0%" :
       lines \in {DoubleInt(totalLines(es))}, protection \in {totalProtection(es)}} : TRUE

averageMRC_overLines(es) ==
  CHOOSE shown \in
    {IF Len(es) > 0 /\ lines > 0 THEN ToFixed(DoubleDiv(sum, lines), 2) ELSE "0.00" :
       lines \in {DoubleInt(totalLines(es))}, sum \in {ReduceSum(es, "mrc", Len(es))}} : TRUE

averageMRC(es) ==
  CHOOSE shown \in
    {IF Len(es) > 0 THEN ToFixed(DoubleDiv(sum, Len(es)), 2) ELSE "0.00" :
       sum \in {ReduceSum(es, "mrc", Len(es))}} : TRUE

\* the "Latest Entry" card: entries[0]?.field || default
LatestEntry(es) ==
  IF Len(es) > 0 THEN es[1]
  ELSE Entry("", 0, 0, 0, 0, 0, 0, "-", 0)

\* what the page shows: the summary statistics card and the latest entry card
Summary(es) ==
  [totalLines |-> DoubleInt(totalLines(es)),
   totalVoiceLines |-> DoubleInt(totalVoiceLines(es)),
   totalBts |-> DoubleInt(totalBts(es)),
   totalHsi |-> DoubleInt(totalHsi(es)),
   totalIot |-> DoubleInt(totalIot(es)),
   totalProtection |-> DoubleInt(totalProtection(es)),
   protectionPercent |-> protectionPercent(es),
   totalAccessories |-> ToFixed(totalAccessories(es), 2),
   averageMRC |-> averageMRC(es),
   latest |-> LatestEntry(es)]

NotRendered == [rendered |-> FALSE]

(***************************************************************************)
(* Text shown as the tip.  A template literal is the sequence of its       *)
(* parts, so that a text contains what was interpolated into it.           *)
(***************************************************************************)
StaticTip == <<"Add at least one sales entry to get a personalized tip.">>

TextContains(text, part) == \E i \in 1..Len(text) : text[i] = part
TextNonEmpty(text) == \E i \in 1..Len(text) : text[i] # ""

(***************************************************************************)
(* The tip endpoint as the page sees it: the fetch fails in transport, or  *)
(* answers with a status and a raw body.                                   *)
(***************************************************************************)
BodyTipA == "{\"tip\":\"Upsell accessories today.\"}"
BodyTipB == "{\"tip\":\"Lead with protection plans.\"}"
BodyEmptyTip == "{\"tip\":\"\"}"
BodyNoTip == "{\"error\":\"Failed to generate tip\"}"
BodyNull == "null"
BodyHtml == "<html>Bad Gateway</html>"
BodyEmpty == ""

Bodies == {BodyTipA, BodyTipB, BodyEmptyTip, BodyNoTip, BodyNull, BodyHtml, BodyEmpty}

TransportFailure == [transport |-> TRUE, ok |-> FALSE, raw |-> ""]

Responses ==
  {TransportFailure} \cup {[transport |-> FALSE, ok |-> o, raw |-> b] : o \in BOOLEAN, b \in Bodies}

\* JSON.parse(raw): the value, or the SyntaxError it throws
JsonParse(raw) ==
  CASE raw = BodyTipA ->
         [threw |-> FALSE, isNull |-> FALSE, tip |-> "Upsell accessories today.", message |-> ""]
    [] raw = BodyTipB ->
         [threw |-> FALSE, isNull |-> FALSE, tip |-> "Lead with protection plans.", message |-> ""]
    [] raw = BodyEmptyTip ->
         [threw |-> FALSE, isNull |-> FALSE, tip |-> "", message |-> ""]
    [] raw = BodyNoTip ->
         [threw |-> FALSE, isNull |-> FALSE, tip |-> "", message |-> ""]
    [] raw = BodyNull ->
         [threw |-> FALSE, isNull |-> TRUE, tip |-> "", message |-> ""]
    [] raw = BodyEmpty ->
         [threw |-> TRUE, isNull |-> FALSE, tip |-> "",
          message |-> "Unexpected end of JSON input"]
    [] OTHER ->
         [threw |-> TRUE, isNull |-> FALSE, tip |-> "",
          message |-> "Unexpected token < in JSON at position 0"]

\* JSON.stringify(JSON.parse(raw)) of a body that parses: the bodies above
\* are written without insignificant white space, so it is the body itself
JsonStringifyParsed(raw) == raw

\* the answers the whole-page specifications draw from
MainResponses ==
  {TransportFailure,
   [transport |-> FALSE, ok |-> TRUE, raw |-> BodyTipA],
   [transport |-> FALSE, ok |-> FALSE, raw |-> BodyHtml]}

\* the message of the TypeError a failed fetch rejects with, and of the one
\* reading a property of null throws
TransportErrorMessage == "Failed to fetch"
NullReadMessage == "Cannot read properties of null (reading 'tip')"

Caught(message) == [threw |-> TRUE, message |-> message, tip |-> <<>>]
Completed(text) == [threw |-> FALSE, message |-> "", tip |-> text]

FetchTipTry_genericError(resp) ==
  IF resp.transport \/ ~resp.ok THEN [threw |-> TRUE, message |-> "Request failed", tip |-> <<>>]
  ELSE LET data == JsonParse(resp.raw)
       IN  IF data.threw THEN [threw |-> TRUE, message |-> data.message, tip |-> <<>>]
           ELSE IF data.isNull
                THEN [threw |-> TRUE, message |-> NullReadMessage, tip |-> <<>>]
           ELSE [threw |-> FALSE, message |-> "",
                 tip |-> IF data.tip # "" THEN <<data.tip>> ELSE <<"(no tip)">>]

\* the try block of fetchTip (store page): what it sets the tip to, or what
\* it throws
FetchTipTry(resp) ==
  IF resp.transport THEN Caught(TransportErrorMessage)
  ELSE IF ~resp.ok THEN Caught(resp.raw)
  ELSE LET data == JsonParse(resp.raw)
       IN  IF data.threw THEN Caught(data.message)
           ELSE IF data.isNull
                THEN Caught(NullReadMessage)
           ELSE Completed(IF data.tip # "" THEN <<data.tip>> ELSE <<"(no tip)">>)

FetchTip_noFinally(resp) ==
  LET t == FetchTipTry(resp)
  IN  [setTip |-> TRUE,
       tip |-> IF t.threw THEN <<"Error: ", t.message>> ELSE t.tip,
       isLoadingTip |-> t.threw,
       escaped |-> FALSE]

\* fetchTip of the store page after the response: try, catch, finally
FetchTip(resp) ==
  LET t == FetchTipTry(resp)
  IN  [setTip |-> TRUE,
       tip |-> IF t.threw THEN <<"Error: ", t.message>> ELSE t.tip,
       isLoadingTip |-> FALSE,
       escaped |-> FALSE]

\* fetchTip of the local-storage page after the response
FetchTipLocal(resp) ==
  IF resp.transport
  THEN [setTip |-> TRUE, tip |-> <<"(fetch error) ", "TypeError: ", TransportErrorMessage>>,
        isLoadingTip |-> FALSE, escaped |-> FALSE]
  ELSE IF ~resp.ok
  THEN [setTip |-> TRUE, tip |-> <<"(error) ", resp.raw>>,
        isLoadingTip |-> FALSE, escaped |-> FALSE]
  ELSE LET data == JsonParse(resp.raw)
       IN  IF data.threw
           THEN [setTip |-> TRUE, tip |-> <<"(invalid JSON) ", resp.raw>>,
                 isLoadingTip |-> FALSE, escaped |-> FALSE]
           ELSE IF data.isNull
           THEN [setTip |-> TRUE,
                 tip |-> <<"(fetch error) ", "TypeError: ", NullReadMessage>>,
                 isLoadingTip |-> FALSE, escaped |-> FALSE]
           ELSE IF data.tip # ""
           THEN [setTip |-> TRUE, tip |-> <<data.tip>>,
                 isLoadingTip |-> FALSE, escaped |-> FALSE]
           ELSE [setTip |-> TRUE,
                 tip |-> <<"(no \"tip\" field) ", JsonStringifyParsed(resp.raw)>>,
                 isLoadingTip |-> FALSE, escaped |-> FALSE]

(***************************************************************************)
(* The login endpoint (POST /api/login), in its two deployments.           *)
(***************************************************************************)
\* a member of a JSON request body: a string, a number, or absent
Str(s) == [type |-> "string", value |-> s]
Num(digits) == [type |-> "number", value |-> digits]
Undefined == [type |-> "undefined", value |-> ""]
Null == [type |-> "null", value |-> ""]

\* !v
Falsy(v) ==
  \/ v.type = "undefined"
  \/ v.type = "string" /\ v.value = ""
  \/ v.type = "number" /\ v.value = "0"
  \/ v.type = "null"

AdminPassword == "password123"

\* the bcrypt hash of a password
HashOf(pw) == <<"$2b$10$", pw>>

users == {[id |-> 1, username |-> "admin", passwordHash |-> HashOf(AdminPassword)]}

\* bcrypt.compare(password, hash): the promise is rejected unless both
\* arguments are strings, and else resolves to whether the hash is the
\* password's
BcryptCompare(pw, hash) ==
  IF pw.type # "string" THEN "rejected"
  ELSE IF HashOf(pw.value) = hash THEN "true" ELSE "false"

\* jwt.sign(payload, secret, { expiresIn: "2h" })
JwtSign(payload) == "jwt(" \o payload \o ";expiresIn=2h)"

\* an answer with a JSON body: the status, and the members error and token
\* of the body
Answer(status, error, token) ==
  [status |-> status, json |-> TRUE, error |-> error, token |-> token]

\* an answer whose body is not JSON; status 0: no answer at all
Plain(status) == [status |-> status, json |-> FALSE, error |-> <<>>, token |-> <<>>]

\* the handler's promise was rejected: express sends nothing (or, with a
\* version that forwards rejections, 500); the serverless platform sends 500
Unanswered == Plain(0)
InternalError == Plain(500)

\* server.js, app.post("/api/login"): the answers it can give
ExpressLogin(req) ==
  IF req.method # "POST" THEN {Plain(404)}
  ELSE IF Falsy(req.username) \/ Falsy(req.password)
  THEN {Answer(400, <<"Missing credentials.">>, <<>>)}
  ELSE LET found == {u \in users : Str(u.username) = req.username}
       IN  IF found = {}
           THEN {Answer(401, <<"Invalid credentials.">>, <<>>)}
           ELSE LET user == CHOOSE u \in found : TRUE
                    isMatch == BcryptCompare(req.password, user.passwordHash)
                IN  IF isMatch = "rejected" THEN {Unanswered, InternalError}
                    ELSE IF isMatch = "false"
                    THEN {Answer(401, <<"Invalid credentials.">>, <<>>)}
                    ELSE {Answer(200, <<>>,
                            <<JwtSign("userId=" \o ToString(user.id) \o
                                      ",username=" \o user.username)>>)}

\* api/login.ts, handler: the answers it can give; req.dbError says that the
\* lookup of the user failed
VercelLogin(req) ==
  IF req.method # "POST" THEN {Plain(405)}
  ELSE IF Falsy(req.username) \/ Falsy(req.password)
  THEN {Answer(400, <<"Missing credentials">>, <<>>)}
  ELSE LET found == {u \in users : Str(u.username) = req.username}
       IN  IF req.dbError \/ found = {}
           THEN {Answer(401, <<"Invalid username or password">>, <<>>)}
           ELSE LET user == CHOOSE u \in found : TRUE
                    match == BcryptCompare(req.password, user.passwordHash)
                IN  IF match = "rejected" THEN {InternalError}
                    ELSE IF match = "false"
                    THEN {Answer(401, <<"Invalid username or password">>, <<>>)}
                    ELSE {Answer(200, <<>>, <<JwtSign("sub=" \o ToString(user.id))>>)}

LoginEndpoint(dep, req) == IF dep = "express" THEN ExpressLogin(req) ELSE VercelLogin(req)

\* the browser of a signed-in user with the tracker open and no login under
\* way: the state of the login flow in the specifications of the tracker
SignedIn ==
  /\ deployment = "express"
  /\ location = "/tracker"
  /\ authToken = <<JwtSign("userId=1,username=admin")>>
  /\ loginPage = 0
  /\ username = ""
  /\ password = ""
  /\ loginError = <<>>
  /\ logins = {}
  /\ loginAttempts = 0
  /\ apiRequest = <<>>
  /\ apiAnswer = <<>>

(***************************************************************************)
(* The data store.                                                         *)
(***************************************************************************)
LoadLimit == 100

RowOf_voiceOnly(values) ==
  [date |-> values.date,
   lines |-> DoubleInt(DoubleAdd(FixZero, NumberOfInt(values.voiceLines))),
   accessories |-> values.accessories,
   protection |-> values.protection,
   revenue |-> values.mrc,
   plan_name |-> values.planName]

\* the row onSubmit inserts for the form values
RowOf(values) ==
  [date |-> values.date,
   lines |-> DoubleInt(DoubleAdd(DoubleAdd(DoubleAdd(DoubleAdd(FixZero,
               NumberOfInt(values.voiceLines)), NumberOfInt(values.bts)),
               NumberOfInt(values.iot)), NumberOfInt(values.hsi))),
   accessories |-> values.accessories,
   protection |-> values.protection,
   revenue |-> values.mrc,
   plan_name |-> values.planName]

\* the entry the initial load makes of a row
MappedRow(row) ==
  Entry(row.date, row.lines, 0, 0, 0, row.accessories, row.protection,
        row.plan_name, row.revenue)

\* select ... order by created_at desc limit 100, mapped
Mapped(rows) ==
  [i \in 1..(IF Len(rows) < LoadLimit THEN Len(rows) ELSE LoadLimit) |-> MappedRow(rows[i])]

ScenarioEntry == Entry("2024-01-01", 10, 5, 0, 0, 250, 3, "X", 5000)

\* the form values the page specifications submit
FormPool ==
  { ScenarioEntry,
    Entry("2024-01-05", 1, 2, 3, 4, 1999, 1, "Mix", 3333) }

NoSavedItem == <<>>

\* the default values of the form: today's date and every other field blank
Today == "2024-01-06"
DefaultValues == [date |-> Today]

\* error.message of a failed data-store request
StoreErrorMessage == "TypeError: Failed to fetch"

(***************************************************************************)
(* The routes of the application, and logging out.                         *)
(***************************************************************************)
MaxLoginPages == 3

\* localStorage.getItem("authToken") as a condition: null and "" are false
TokenPresent(item) == item # <<>> /\ item[1] # ""

RenderPage(page) == [kind |-> "render", to |-> page]
Navigate(path) == [kind |-> "navigate", to |-> path]

ProtectedRoute_open(item) == RenderPage("/tracker")

\* ProtectedRoute around the tracker page
ProtectedRoute(item) ==
  IF ~TokenPresent(item) THEN Navigate("/login") ELSE RenderPage("/tracker")

\* App: the element of the route that matches the path
RouteElement(path, item) ==
  IF path = "/login" THEN RenderPage("/login")
  ELSE IF path = "/tracker" THEN ProtectedRoute(item)
  ELSE IF TokenPresent(item) THEN Navigate("/tracker") ELSE Navigate("/login")

\* the page rendered for a path, the redirects followed
RECURSIVE Resolve(_, _)
Resolve(path, item) ==
  LET element == RouteElement(path, item)
  IN  IF element.kind = "render" THEN element.to ELSE Resolve(element.to, item)

\* the router renders a page: a Login page is a new instance with its
\* initial state, and with the tracker rendered no Login state is left
Show(page) ==
  /\ location' = page
  /\ loginPage' = IF page = "/login" THEN loginPage + 1 ELSE loginPage
  /\ username' = ""
  /\ password' = ""
  /\ loginError' = <<>>

Logout_keepsToken ==
  /\ location = "/tracker"
  /\ variant = "none" \/ (variant = "store" /\ mounted /\ ~loading)
  /\ loginPage < MaxLoginPages
  /\ authToken' = authToken
  /\ Show(Resolve("/login", authToken))
  /\ UNCHANGED <<variant, pageVars, summary, storeVars, tipVars, submits, clears, form,
                 noticeVars, deployment, logins, loginAttempts, apiVars>>

\* handleLogout of the tracker page; the page renders its button, like
\* everything else, only once the loading guard lets it; the tracker page
\* is unmounted by the navigation
Logout ==
  /\ location = "/tracker"
  /\ variant = "none" \/ (variant = "store" /\ mounted /\ ~loading)
  /\ loginPage < MaxLoginPages
  /\ authToken' = <<>>
  /\ Show(Resolve("/login", <<>>))
  /\ UNCHANGED <<variant, pageVars, summary, storeVars, tipVars, submits, clears, form,
                 noticeVars, deployment, logins, loginAttempts, apiVars>>

(***************************************************************************)
(* The store page (PerformanceTracker with the data store).                *)
(***************************************************************************)
Init ==
  /\ variant = "store"
  /\ mounted = FALSE
  /\ loading = TRUE
  /\ entries = <<>>
  /\ tip = <<"">>
  /\ isLoadingTip = FALSE
  /\ summary = NotRendered
  /\ store \in SeqsUpTo({RowOf(ScenarioEntry)}, MaxStoredRows)
  /\ saved = NoSavedItem
  /\ inserts = {}
  /\ deletes = {}
  /\ tipInFlight = {}
  /\ unhandled = FALSE
  /\ tipRequests = 0
  /\ tipFrom = 0
  /\ nonEmptyChanges = 0
  /\ submits = 0
  /\ clears = 0
  /\ form = DefaultValues
  /\ alerts = {}
  /\ consoleErrors = {}
  /\ SignedIn

FetchTipStart_cancelling(es) ==
  /\ isLoadingTip' = TRUE
  /\ tipInFlight' = {[id |-> tipRequests + 1, entries |-> es]}
  /\ tipRequests' = tipRequests + 1
  /\ tip' = tip
  /\ tipFrom' = tipFrom

\* fetchTip(es) up to its first await: the flag is set and the request leaves
FetchTipStart(es) ==
  /\ isLoadingTip' = TRUE
  /\ tipInFlight' = tipInFlight \cup {[id |-> tipRequests + 1, entries |-> es]}
  /\ tipRequests' = tipRequests + 1
  /\ tip' = tip
  /\ tipFrom' = tipFrom

TipEffect_always(es) == FetchTipStart(es)

\* useEffect(..., [entries]) of the store page, run for the list es
TipEffect(es) ==
  IF Len(es) > 0
  THEN FetchTipStart(es)
  ELSE /\ tip' = StaticTip
       /\ tipFrom' = 0
       /\ UNCHANGED <<isLoadingTip, tipInFlight, tipRequests>>

\* setEntries(es) and the effect that the change of entries triggers
SetEntries(es) ==
  /\ entries' = es
  /\ nonEmptyChanges' = nonEmptyChanges + (IF Len(es) > 0 THEN 1 ELSE 0)
  /\ TipEffect(es)

\* first render: the mount effects start the initial load and run the tip
\* effect for the empty list
Mount ==
  /\ variant = "store"
  /\ location = "/tracker"
  /\ ~mounted
  /\ mounted' = TRUE
  /\ TipEffect(entries)
  /\ UNCHANGED <<variant, authVars, form, noticeVars, loading, entries, unhandled, summary, storeVars,
                 nonEmptyChanges, submits, clears>>

\* the initial select answers: an error, or the rows
LoadDone(ok) ==
  /\ variant = "store"
  /\ location = "/tracker"
  /\ mounted /\ loading
  /\ loading' = FALSE
  /\ IF ok
     THEN SetEntries(Mapped(store)) /\ UNCHANGED consoleErrors
     ELSE /\ consoleErrors' = consoleErrors \cup {"Fetch error: " \o StoreErrorMessage}
          /\ UNCHANGED <<entries, tip, isLoadingTip, tipVars>>
  /\ UNCHANGED <<variant, authVars, form, alerts, mounted, unhandled, summary, storeVars, submits,
                 clears>>

Submit_whileLoading(values) ==
  /\ variant = "store"
  /\ location = "/tracker"
  /\ mounted
  /\ submits + clears < MaxOps
  /\ submits' = submits + 1
  /\ form' = values
  /\ inserts' = inserts \cup {[id |-> submits + 1, values |-> values, done |-> FALSE]}
  /\ UNCHANGED <<variant, authVars, noticeVars, pageVars, summary, store, saved, deletes, tipVars,
                 clears>>

\* the user fills the form with valid values and saves: onSubmit up to the
\* await, the insert request leaves
Submit(values) ==
  /\ variant = "store"
  /\ location = "/tracker"
  /\ mounted /\ ~loading
  /\ submits + clears < MaxOps
  /\ submits' = submits + 1
  /\ form' = values
  /\ inserts' = inserts \cup {[id |-> submits + 1, values |-> values, done |-> FALSE]}
  /\ UNCHANGED <<variant, authVars, noticeVars, pageVars, summary, store, saved, deletes, tipVars,
                 clears>>

\* the store executes an insert
StoreInsert(req) ==
  /\ req \in inserts /\ ~req.done
  /\ inserts' = (inserts \ {req}) \cup {[req EXCEPT !.done = TRUE]}
  /\ store' = <<RowOf(req.values)>> \o store
  /\ UNCHANGED <<variant, authVars, form, noticeVars, pageVars, summary, saved, deletes, tipVars,
                 submits, clears>>

InsertError_resets(req) ==
  /\ location = "/tracker"
  /\ req \in inserts /\ ~req.done
  /\ inserts' = inserts \ {req}
  /\ consoleErrors' = consoleErrors \cup {"Insert error: " \o StoreErrorMessage}
  /\ form' = DefaultValues
  /\ UNCHANGED <<variant, authVars, alerts, pageVars, summary, store, saved, deletes, tipVars,
                 submits, clears>>

\* onSubmit after the await, the insert having failed: log and return
InsertError(req) ==
  /\ location = "/tracker"
  /\ req \in inserts /\ ~req.done
  /\ inserts' = inserts \ {req}
  /\ consoleErrors' = consoleErrors \cup {"Insert error: " \o StoreErrorMessage}
  /\ UNCHANGED <<variant, authVars, form, alerts, pageVars, summary, store, saved, deletes, tipVars,
                 submits, clears>>

InsertReply_appends(req) ==
  /\ location = "/tracker"
  /\ req \in inserts /\ req.done
  /\ inserts' = inserts \ {req}
  /\ SetEntries(entries \o <<req.values>>)
  /\ form' = DefaultValues
  /\ UNCHANGED <<variant, authVars, noticeVars, mounted, loading, unhandled, summary, store, saved,
                 deletes, submits, clears>>

\* onSubmit after the await, the insert having succeeded: prepend
InsertReply(req) ==
  /\ location = "/tracker"
  /\ req \in inserts /\ req.done
  /\ inserts' = inserts \ {req}
  /\ SetEntries(<<req.values>> \o entries)
  /\ form' = DefaultValues
  /\ UNCHANGED <<variant, authVars, noticeVars, mounted, loading, unhandled, summary, store, saved,
                 deletes, submits, clears>>

ClearDatabase_unconfirmed(confirmed) ==
  /\ variant = "store"
  /\ location = "/tracker"
  /\ mounted /\ ~loading
  /\ Len(entries) > 0
  /\ submits + clears < MaxOps
  /\ clears' = clears + 1
  /\ deletes' = deletes \cup {[id |-> clears + 1, done |-> FALSE]}
  /\ UNCHANGED <<variant, authVars, form, noticeVars, pageVars, summary, store, saved, inserts,
                 tipVars, submits>>

\* handleClearDatabase up to the await: the user confirms or cancels
ClearDatabase(confirmed) ==
  /\ variant = "store"
  /\ location = "/tracker"
  /\ mounted /\ ~loading
  /\ Len(entries) > 0
  /\ submits + clears < MaxOps
  /\ clears' = clears + 1
  /\ deletes' = IF confirmed THEN deletes \cup {[id |-> clears + 1, done |-> FALSE]}
                ELSE deletes
  /\ UNCHANGED <<variant, authVars, form, noticeVars, pageVars, summary, store, saved, inserts,
                 tipVars, submits>>

\* the store executes the delete of all rows
StoreDelete(req) ==
  /\ req \in deletes /\ ~req.done
  /\ deletes' = (deletes \ {req}) \cup {[req EXCEPT !.done = TRUE]}
  /\ store' = <<>>
  /\ UNCHANGED <<variant, authVars, form, noticeVars, pageVars, summary, saved, inserts, tipVars,
                 submits, clears>>

\* handleClearDatabase after the await, the delete having failed: log, alert
DeleteError(req) ==
  /\ location = "/tracker"
  /\ req \in deletes /\ ~req.done
  /\ deletes' = deletes \ {req}
  /\ consoleErrors' = consoleErrors \cup {"Delete error: " \o StoreErrorMessage}
  /\ alerts' = alerts \cup {"Could not clear database:\n" \o StoreErrorMessage}
  /\ UNCHANGED <<variant, authVars, form, pageVars, summary, store, saved, inserts, tipVars, submits,
                 clears>>

\* handleClearDatabase after the await, the delete having succeeded
DeleteReply(req) ==
  /\ location = "/tracker"
  /\ req \in deletes /\ req.done
  /\ deletes' = deletes \ {req}
  /\ SetEntries(<<>>)
  /\ UNCHANGED <<variant, authVars, form, noticeVars, mounted, loading, unhandled, summary, store,
                 saved, inserts,
                 submits, clears>>

TipReply_latestOnly(req, resp) ==
  /\ variant = "store"
  /\ location = "/tracker"
  /\ req \in tipInFlight
  /\ tipInFlight' = tipInFlight \ {req}
  /\ LET r == FetchTip(resp)
     IN  /\ tip' = IF req.id = tipRequests THEN r.tip ELSE tip
         /\ tipFrom' = IF req.id = tipRequests THEN req.id ELSE tipFrom
         /\ isLoadingTip' = r.isLoadingTip
         /\ unhandled' = (unhandled \/ r.escaped)
  /\ UNCHANGED <<variant, authVars, form, noticeVars, mounted, loading, entries, summary,
                 storeVars, tipRequests,
                 nonEmptyChanges, submits, clears>>

\* fetchTip after its awaits: the response resp to the request req arrives
TipReply(req, resp) ==
  /\ variant = "store"
  /\ location = "/tracker"
  /\ req \in tipInFlight
  /\ tipInFlight' = tipInFlight \ {req}
  /\ LET r == FetchTip(resp)
     IN  /\ tip' = IF r.setTip THEN r.tip ELSE tip
         /\ tipFrom' = IF r.setTip THEN req.id ELSE tipFrom
         /\ isLoadingTip' = r.isLoadingTip
         /\ unhandled' = (unhandled \/ r.escaped)
  /\ UNCHANGED <<variant, authVars, form, noticeVars, mounted, loading, entries, summary,
                 storeVars, tipRequests,
                 nonEmptyChanges, submits, clears>>

\* the answer to an insert reaches the page after it was unmounted: the
\* continuation of onSubmit logs a failure, and its state updates are dropped
LateInsertAnswer(req) ==
  /\ location # "/tracker"
  /\ req \in inserts
  /\ inserts' = inserts \ {req}
  /\ consoleErrors' = IF req.done THEN consoleErrors
                      ELSE consoleErrors \cup {"Insert error: " \o StoreErrorMessage}
  /\ UNCHANGED <<variant, authVars, form, alerts, pageVars, summary, store, saved, deletes, tipVars,
                 submits, clears>>

\* the same for the answer to a delete: a failure is logged and alerted
LateDeleteAnswer(req) ==
  /\ location # "/tracker"
  /\ req \in deletes
  /\ deletes' = deletes \ {req}
  /\ consoleErrors' = IF req.done THEN consoleErrors
                      ELSE consoleErrors \cup {"Delete error: " \o StoreErrorMessage}
  /\ alerts' = IF req.done THEN alerts
               ELSE alerts \cup {"Could not clear database:\n" \o StoreErrorMessage}
  /\ UNCHANGED <<variant, authVars, form, pageVars, summary, store, saved, inserts, tipVars, submits,
                 clears>>

\* the same for the response to a tip request: setTip and setIsLoadingTip
\* are dropped
LateTipAnswer(req) ==
  /\ variant = "store"
  /\ location # "/tracker"
  /\ req \in tipInFlight
  /\ tipInFlight' = tipInFlight \ {req}
  /\ UNCHANGED <<variant, authVars, form, noticeVars, pageVars, summary, storeVars, tipRequests,
                 nonEmptyChanges, tipFrom, submits, clears>>

Next ==
  \/ Mount
  \/ \E ok \in BOOLEAN : LoadDone(ok)
  \/ \E values \in FormPool : Submit(values)
  \/ \E req \in inserts : StoreInsert(req)
  \/ \E req \in inserts : InsertError(req)
  \/ \E req \in inserts : InsertReply(req)
  \/ \E confirmed \in BOOLEAN : ClearDatabase(confirmed)
  \/ \E req \in deletes : StoreDelete(req)
  \/ \E req \in deletes : DeleteError(req)
  \/ \E req \in deletes : DeleteReply(req)
  \/ \E req \in tipInFlight, resp \in MainResponses : TipReply(req, resp)
  \/ Logout
  \/ \E req \in inserts : LateInsertAnswer(req)
  \/ \E req \in deletes : LateDeleteAnswer(req)
  \/ \E req \in tipInFlight : LateTipAnswer(req)

Spec == Init /\ [][Next]_vars

(***************************************************************************)
(* The local-storage page (PerformanceTracker keeping entries in           *)
(* localStorage).                                                          *)
(***************************************************************************)
InitLocal ==
  /\ variant = "local"
  /\ mounted = FALSE
  /\ loading = FALSE
  /\ saved \in SeqsUpTo(FormPool, MaxSavedEntries)
  /\ entries = saved
  /\ tip = <<"">>
  /\ isLoadingTip = FALSE
  /\ summary = NotRendered
  /\ store = <<>>
  /\ inserts = {}
  /\ deletes = {}
  /\ tipInFlight = {}
  /\ unhandled = FALSE
  /\ tipRequests = 0
  /\ tipFrom = 0
  /\ nonEmptyChanges = 0
  /\ submits = 0
  /\ clears = 0
  /\ form = DefaultValues
  /\ alerts = {}
  /\ consoleErrors = {}
  /\ SignedIn

\* useEffect(..., [entries]) of the local-storage page: always fetch
TipEffectLocal(es) == FetchTipStart(es)

\* setEntries(es) with the two effects the change triggers: persist, fetch
SetEntriesLocal(es) ==
  /\ entries' = es
  /\ saved' = es
  /\ nonEmptyChanges' = nonEmptyChanges + (IF Len(es) > 0 THEN 1 ELSE 0)
  /\ TipEffectLocal(es)

MountLocal ==
  /\ variant = "local"
  /\ ~mounted
  /\ mounted' = TRUE
  /\ saved' = entries
  /\ TipEffectLocal(entries)
  /\ UNCHANGED <<variant, authVars, form, noticeVars, loading, entries, unhandled, summary, store,
                 inserts, deletes,
                 nonEmptyChanges, submits, clears>>

SubmitLocal(values) ==
  /\ variant = "local"
  /\ mounted
  /\ submits + clears < MaxOps
  /\ submits' = submits + 1
  /\ SetEntriesLocal(<<values>> \o entries)
  /\ UNCHANGED <<variant, authVars, form, noticeVars, mounted, loading, unhandled, summary, store,
                 inserts, deletes,
                 clears>>

ClearLocal(confirmed) ==
  /\ variant = "local"
  /\ mounted
  /\ Len(entries) > 0
  /\ submits + clears < MaxOps
  /\ clears' = clears + 1
  /\ IF confirmed
     THEN SetEntriesLocal(<<>>)
     ELSE UNCHANGED <<entries, saved, tip, isLoadingTip, tipVars>>
  /\ UNCHANGED <<variant, authVars, form, noticeVars, mounted, loading, unhandled, summary, store,
                 inserts, deletes,
                 submits>>

TipReplyLocal(req, resp) ==
  /\ variant = "local"
  /\ req \in tipInFlight
  /\ tipInFlight' = tipInFlight \ {req}
  /\ LET r == FetchTipLocal(resp)
     IN  /\ tip' = IF r.setTip THEN r.tip ELSE tip
         /\ tipFrom' = IF r.setTip THEN req.id ELSE tipFrom
         /\ isLoadingTip' = r.isLoadingTip
         /\ unhandled' = (unhandled \/ r.escaped)
  /\ UNCHANGED <<variant, authVars, form, noticeVars, mounted, loading, entries, summary,
                 storeVars, tipRequests,
                 nonEmptyChanges, submits, clears>>

NextLocal ==
  \/ MountLocal
  \/ \E values \in FormPool : SubmitLocal(values)
  \/ \E confirmed \in BOOLEAN : ClearLocal(confirmed)
  \/ \E req \in tipInFlight, resp \in MainResponses : TipReplyLocal(req, resp)

SpecLocal == InitLocal /\ [][NextLocal]_vars

(***************************************************************************)
(* The tip fetch on its own: either page with one request in flight, and   *)
(* every answer the endpoint can give.                                     *)
(***************************************************************************)
InitTip ==
  /\ variant \in {"store", "local"}
  /\ mounted = TRUE
  /\ loading = FALSE
  /\ entries \in {es \in SeqsUpTo(FormPool, MaxSavedEntries + 1) :
                    variant = "store" => Len(es) > 0}
  /\ saved = IF variant = "local" THEN entries ELSE NoSavedItem
  /\ tip \in {<<"">>, StaticTip, <<"Upsell accessories today.">>}
  /\ isLoadingTip = TRUE
  /\ summary = NotRendered
  /\ store = <<>>
  /\ inserts = {}
  /\ deletes = {}
  /\ tipInFlight = {[id |-> 1, entries |-> entries]}
  /\ unhandled = FALSE
  /\ tipRequests = 1
  /\ tipFrom = 0
  /\ nonEmptyChanges = IF Len(entries) > 0 THEN 1 ELSE 0
  /\ submits = 0
  /\ clears = 0
  /\ form = DefaultValues
  /\ alerts = {}
  /\ consoleErrors = {}
  /\ SignedIn

NextTip ==
  \/ \E req \in tipInFlight, resp \in Responses : TipReply(req, resp)
  \/ \E req \in tipInFlight, resp \in Responses : TipReplyLocal(req, resp)

SpecTip == InitTip /\ [][NextTip]_vars

(***************************************************************************)
(* The aggregator as a pure function: any entry list, one render.          *)
(***************************************************************************)
InitAgg ==
  /\ variant = "store"
  /\ mounted = TRUE
  /\ loading = FALSE
  /\ entries \in SeqsUpTo(EntryPool, MaxEntries)
  /\ tip = <<"">>
  /\ isLoadingTip = FALSE
  /\ summary = NotRendered
  /\ store = <<>>
  /\ saved = NoSavedItem
  /\ inserts = {}
  /\ deletes = {}
  /\ tipInFlight = {}
  /\ unhandled = FALSE
  /\ tipRequests = 0
  /\ tipFrom = 0
  /\ nonEmptyChanges = 0
  /\ submits = 0
  /\ clears = 0
  /\ form = DefaultValues
  /\ alerts = {}
  /\ consoleErrors = {}
  /\ SignedIn

Render ==
  /\ summary = NotRendered
  /\ summary' = Summary(entries)
  /\ UNCHANGED <<variant, authVars, form, noticeVars, pageVars, storeVars, tipVars, submits, clears>>

NextAgg == Render

SpecAgg == InitAgg /\ [][NextAgg]_vars

(***************************************************************************)
(* The login endpoint on its own: one request, of any client.              *)
(***************************************************************************)
\* no PerformanceTracker page is built
TrackerNotBuilt ==
  /\ variant = "none"
  /\ mounted = FALSE
  /\ loading = FALSE
  /\ entries = <<>>
  /\ tip = <<"">>
  /\ isLoadingTip = FALSE
  /\ summary = NotRendered
  /\ store = <<>>
  /\ saved = NoSavedItem
  /\ inserts = {}
  /\ deletes = {}
  /\ tipInFlight = {}
  /\ unhandled = FALSE
  /\ tipRequests = 0
  /\ tipFrom = 0
  /\ nonEmptyChanges = 0
  /\ submits = 0
  /\ clears = 0
  /\ form = DefaultValues
  /\ alerts = {}
  /\ consoleErrors = {}

trackerVars == <<variant, mounted, loading, entries, tip, isLoadingTip, summary, store,
                 saved, inserts, deletes, tipInFlight, unhandled, tipRequests,
                 nonEmptyChanges, tipFrom, submits, clears, form, alerts, consoleErrors>>

\* the member values the requests of the model carry
UsernamePool == {Undefined, Str(""), Str("admin"), Str("guest")}
PasswordPool == {Undefined, Str(""), Str(AdminPassword), Str("letmein"), Num("123456")}

ApiRequests ==
  {[method |-> m, username |-> u, password |-> p, dbError |-> e] :
     m \in {"POST", "GET"}, u \in UsernamePool, p \in PasswordPool, e \in BOOLEAN}

InitEndpoint ==
  /\ TrackerNotBuilt
  /\ deployment \in {"express", "vercel"}
  /\ location = "/login"
  /\ authToken = <<>>
  /\ loginPage = 1
  /\ username = ""
  /\ password = ""
  /\ loginError = <<>>
  /\ logins = {}
  /\ loginAttempts = 0
  /\ \E req \in ApiRequests :
        /\ deployment = "express" => ~req.dbError
        /\ apiRequest = <<req>>
  /\ apiAnswer = <<>>

\* the endpoint answers the request
ApiLogin ==
  /\ variant = "none"
  /\ apiRequest # <<>> /\ apiAnswer = <<>>
  /\ \E answer \in LoginEndpoint(deployment, apiRequest[1]) : apiAnswer' = <<answer>>
  /\ UNCHANGED <<trackerVars, deployment, browserVars, apiRequest>>

NextEndpoint == ApiLogin

SpecEndpoint == InitEndpoint /\ [][NextEndpoint]_vars

(***************************************************************************)
(* The tip endpoint (POST /api/generateTip), in its two deployments.       *)
(***************************************************************************)
\* the body member entries when it is an array: its length
Arr(length) == [type |-> "array", value |-> length]

\* entries.length === 0
LengthZero(v) == v.type \in {"array", "string"} /\ v.value \in {"0", ""}

\* String.prototype.trim on a text given as its parts
RECURSIVE TrimStart(_)
TrimStart(text) ==
  IF text # <<>> /\ Head(text) = " " THEN TrimStart(Tail(text)) ELSE text

RECURSIVE TrimEnd(_)
TrimEnd(text) ==
  IF text # <<>> /\ text[Len(text)] = " "
  THEN TrimEnd(SubSeq(text, 1, Len(text) - 1)) ELSE text

Trim(text) == TrimEnd(TrimStart(text))

\* what openai.chat.completions.create does: it resolves to a completion
\* whose first choice has a text content, or a null content, or to a
\* completion without choices, or its promise is rejected
Completion(content) == [kind |-> "content", content |-> content]
NullContent == [kind |-> "null", content |-> <<>>]
NoChoices == [kind |-> "nochoice", content |-> <<>>]
Rejected == [kind |-> "rejected", content |-> <<>>]

\* an answer of the tip endpoint: the status, whether the body is JSON, its
\* members tip and error, and whether the completion service was called
TipAnswer(status, text, error, called) ==
  [status |-> status, json |-> TRUE, tip |-> text, error |-> error, called |-> called]

TipPlain(status) ==
  [status |-> status, json |-> FALSE, tip |-> <<>>, error |-> <<>>, called |-> FALSE]

AddEntryTip == <<"Add at least one sales entry to get a personalized tip.">>
FallbackTip ==
  <<"Tip: Focus on upselling accessories when accessory totals exceed 5 units today.">>

\* jwt.verify(token, secret): whether the token was signed by jwt.sign
JwtVerify(token) == token = JwtSign("userId=1,username=admin")

\* server.js, authenticateToken: the answer it sends, or none when it calls next()
authenticateToken(req) ==
  LET authHeader == req.authorization
      token == IF authHeader # <<>> /\ Len(authHeader) >= 2
               THEN <<authHeader[2]>> ELSE <<>>
  IN  IF token = <<>> \/ token[1] = "" THEN <<TipAnswer(401, <<>>, <<"Token missing.">>, FALSE)>>
      ELSE IF ~JwtVerify(token[1]) THEN <<TipAnswer(403, <<>>, <<"Token invalid.">>, FALSE)>>
      ELSE <<>>

\* server.js, the handler of app.post("/api/generateTip")
ExpressTipHandler(req) ==
  IF Falsy(req.entries) \/ LengthZero(req.entries)
  THEN TipAnswer(200, <<AddEntryTip>>, <<>>, FALSE)
  ELSE IF req.ai.kind = "content"
       THEN TipAnswer(200, <<Trim(req.ai.content)>>, <<>>, TRUE)
       \* a rejected call, choices[0] undefined, or content null: the catch
       ELSE TipAnswer(200, <<FallbackTip>>, <<>>, TRUE)

\* server.js: the middleware registered on the route before its handler
GenerateTipMiddleware_guarded == TRUE
GenerateTipMiddleware == FALSE

\* server.js, app.post("/api/generateTip", ...): only POST is routed to it
ExpressGenerateTip(req) ==
  IF req.method # "POST" THEN TipPlain(404)
  ELSE IF GenerateTipMiddleware /\ authenticateToken(req) # <<>>
       THEN authenticateToken(req)[1]
       ELSE ExpressTipHandler(req)

\* api/generateTip.ts, handler
VercelGenerateTip(req) ==
  IF req.method # "POST" THEN TipPlain(405)
  ELSE IF req.entries.type # "array"
       \* the message, without the quotes around the word entries
       THEN TipAnswer(400, <<>>, <<"Missing or invalid entries array">>, FALSE)
       ELSE IF req.ai.kind = "rejected"
            THEN TipAnswer(500, <<>>, <<"Failed to generate tip">>, TRUE)
            ELSE IF req.ai.kind = "content"
                 THEN TipAnswer(200, <<Trim(req.ai.content)>>, <<>>, TRUE)
                 ELSE TipAnswer(200, <<<<"(no tip)">>>>, <<>>, TRUE)

TipEndpoint(dep, req) ==
  IF dep = "express" THEN ExpressGenerateTip(req) ELSE VercelGenerateTip(req)

EntriesPool == {Undefined, Null, Arr("0"), Arr("1"), Arr("2"), Str(""), Str("abc")}
AuthorizationPool ==
  {<<>>, <<"Bearer">>, <<"Bearer", JwtSign("userId=1,username=admin")>>, <<"Bearer", "bogus">>}
CompletionPool ==
  {Completion(<<"Upsell accessories today.">>),
   Completion(<<" ", "Lead with protection plans.", " ">>),
   NullContent, NoChoices, Rejected}

TipApiRequests ==
  [method : {"POST", "GET"}, entries : EntriesPool,
   authorization : AuthorizationPool, ai : CompletionPool]

\* one request sent straight to the tip endpoint
InitTipEndpoint ==
  /\ TrackerNotBuilt
  /\ deployment \in {"express", "vercel"}
  /\ location = "/login"
  /\ authToken = <<>>
  /\ loginPage = 1
  /\ username = ""
  /\ password = ""
  /\ loginError = <<>>
  /\ logins = {}
  /\ loginAttempts = 0
  /\ apiRequest \in {<<req>> : req \in TipApiRequests}
  /\ apiAnswer = <<>>

\* the endpoint answers the request
ApiGenerateTip ==
  /\ variant = "none"
  /\ apiRequest # <<>> /\ apiAnswer = <<>>
  /\ apiAnswer' = <<TipEndpoint(deployment, apiRequest[1])>>
  /\ UNCHANGED <<trackerVars, deployment, browserVars, apiRequest>>

NextTipEndpoint == ApiGenerateTip

SpecTipEndpoint == InitTipEndpoint /\ [][NextTipEndpoint]_vars

(***************************************************************************)
(* The Login page.                                                         *)
(***************************************************************************)
MaxLogins == 2
PathPool == {"/", "/login", "/tracker", "/reports"}
NamePool == {"", "admin", "guest"}
WordPool == {"", AdminPassword, "letmein"}

InitLogin ==
  /\ TrackerNotBuilt
  /\ deployment \in {"express", "vercel"}
  /\ authToken \in {<<>>, <<JwtSign("sub=1")>>}
  /\ \E path \in PathPool : location = Resolve(path, authToken)
  /\ loginPage = IF location = "/login" THEN 1 ELSE 0
  /\ username = ""
  /\ password = ""
  /\ loginError = <<>>
  /\ logins = {}
  /\ loginAttempts = 0
  /\ apiRequest = <<>>
  /\ apiAnswer = <<>>

\* the user opens a path of the application in the address bar: the page
\* is loaded anew, which drops the requests of the page that was open
Visit(path) ==
  /\ variant = "none"
  /\ loginPage < MaxLoginPages
  /\ Show(Resolve(path, authToken))
  /\ logins' = {}
  /\ UNCHANGED <<trackerVars, deployment, authToken, loginAttempts, apiVars>>

\* the user types into the two inputs
TypeCredentials(name, word) ==
  /\ variant = "none"
  /\ location = "/login"
  /\ username' = name
  /\ password' = word
  /\ UNCHANGED <<trackerVars, deployment, location, authToken, loginPage, loginError,
                 logins, loginAttempts, apiVars>>

\* handleSubmit up to the await; both inputs are required
SubmitLogin ==
  /\ variant = "none"
  /\ location = "/login"
  /\ username # "" /\ password # ""
  /\ loginAttempts < MaxLogins
  /\ loginAttempts' = loginAttempts + 1
  /\ loginError' = <<>>
  /\ logins' = logins \cup {[id |-> loginAttempts + 1, page |-> loginPage,
                               username |-> username, password |-> password]}
  /\ UNCHANGED <<trackerVars, deployment, location, authToken, loginPage, username,
                 password, apiVars>>

\* the request handleSubmit sends
LoginRequest(req, dbError) ==
  [method |-> "POST", username |-> Str(req.username), password |-> Str(req.password),
   dbError |-> dbError]

\* what the endpoint answers to it
LoginAnswers(req) ==
  UNION {LoginEndpoint(deployment, LoginRequest(req, e)) :
           e \in IF deployment = "vercel" THEN BOOLEAN ELSE {FALSE}}

\* a gateway in front of the endpoint answers instead, with an HTML page
BadGateway == Plain(502)

\* what fetch can settle with: an answer, a gateway's answer, no answer
LoginResponses(req) == LoginAnswers(req) \cup {BadGateway, Unanswered}

HandleSubmit_anyStatus(resp, item) ==
  [error |-> <<>>,
   item |-> IF resp.token = <<>> THEN <<"undefined">> ELSE resp.token,
   navigate |-> TRUE, logged |-> {}]

\* handleSubmit from the await on, as the new values of the error state and
\* of the stored item, whether it navigates, and what it logs
HandleSubmit(resp, item) ==
  IF resp.status = 0
  THEN [error |-> <<"Unable to connect to server.">>, item |-> item, navigate |-> FALSE,
        logged |-> {TransportErrorMessage}]
  ELSE IF ~resp.json
  THEN [error |-> <<"Unable to connect to server.">>, item |-> item, navigate |-> FALSE,
        logged |-> {"SyntaxError: Unexpected token < in JSON at position 0"}]
  ELSE IF resp.status \notin 200..299
  THEN [error |-> IF resp.error = <<>> \/ resp.error = <<"">>
                  THEN <<"Login failed.">> ELSE resp.error,
        item |-> item, navigate |-> FALSE, logged |-> {}]
  ELSE [error |-> <<>>,
        item |-> IF resp.token = <<>> THEN <<"undefined">> ELSE resp.token,
        navigate |-> TRUE, logged |-> {}]

\* handleSubmit after the await: setError reaches the Login instance that
\* sent the request only while that instance is mounted
LoginReply(req, resp) ==
  /\ variant = "none"
  /\ req \in logins
  /\ resp \in LoginResponses(req)
  /\ logins' = logins \ {req}
  /\ LET r == HandleSubmit(resp, authToken)
     IN  /\ authToken' = r.item
         /\ consoleErrors' = consoleErrors \cup r.logged
         /\ IF r.navigate
            THEN Show(Resolve("/tracker", r.item))
            ELSE /\ loginError' = IF location = "/login" /\ loginPage = req.page
                                  THEN r.error ELSE loginError
                 /\ UNCHANGED <<location, loginPage, username, password>>
  /\ UNCHANGED <<variant, pageVars, summary, storeVars, tipVars, submits, clears, form,
                 alerts, deployment, loginAttempts, apiVars>>

NextLogin ==
  \/ \E path \in PathPool : Visit(path)
  \/ \E name \in NamePool, word \in WordPool : TypeCredentials(name, word)
  \/ SubmitLogin
  \/ \E req \in logins : \E resp \in LoginResponses(req) : LoginReply(req, resp)
  \/ Logout

SpecLogin == InitLogin /\ [][NextLogin]_vars

Rendered == summary # NotRendered

(***************************************************************************)
(* Reference arithmetic for the properties: exact sums of the naturals the *)
(* fields denote, and the decimal roundings of an exact quotient.          *)
(***************************************************************************)
RECURSIVE SumNat(_, _, _)
SumNat(es, field, k) == IF k = 0 THEN 0 ELSE SumNat(es, field, k - 1) + es[k][field]

FieldSum(es, field) == SumNat(es, field, Len(es))

\* the naturals n with |n - num / den| <= 1/2: the nearest one, both on a tie
NearestNat(num, den) ==
  {n \in {num \div den, (num \div den) + 1} :
     2 * (IF n * den >= num THEN n * den - num ELSE num - n * den) <= den}

PercentString(tenths) == ToString(tenths \div 10) \o "." \o ToString(tenths % 10) \o "%"

DollarString(cents) ==
  ToString(cents \div 100) \o "." \o ToString((cents % 100) \div 10) \o ToString(cents % 10)

SwapAdjacent(es, i) ==
  [k \in 1..Len(es) |-> IF k = i THEN es[i + 1] ELSE IF k = i + 1 THEN es[i] ELSE es[k]]

AggregatorOutputs(sm) ==
  <<sm.totalVoiceLines, sm.totalBts, sm.totalIot, sm.totalHsi, sm.totalLines,
    sm.totalAccessories, sm.totalProtection, sm.protectionPercent, sm.averageMRC>>

\* C1: for every entry list the total lines shown equals the sum of the four
\* channel totals shown, and each channel total is the sum of its field over
\* all the entries.
C1_TotalLinesIsSumOfChannels ==
  Rendered =>
    /\ summary.totalVoiceLines = FieldSum(entries, "voiceLines")
    /\ summary.totalBts = FieldSum(entries, "bts")
    /\ summary.totalIot = FieldSum(entries, "iot")
    /\ summary.totalHsi = FieldSum(entries, "hsi")
    /\ summary.totalLines = summary.totalVoiceLines + summary.totalBts
                              + summary.totalIot + summary.totalHsi

C1_Witness ==
  /\ Rendered
  /\ Len(entries) >= 2
  /\ summary.totalVoiceLines > 0 /\ summary.totalBts > 0
  /\ summary.totalIot > 0 /\ summary.totalHsi > 0
  /\ summary.totalLines = 110

\* C2: the protection percentage is "0.0%" whenever total lines is 0, also
\* when protection counts are positive; otherwise it is total protection /
\* total lines * 100 rounded to one decimal place (a nearest one-decimal
\* value of the exact quotient).
C2_ProtectionPercent ==
  Rendered =>
    LET lines == FieldSum(entries, "voiceLines") + FieldSum(entries, "bts")
                   + FieldSum(entries, "iot") + FieldSum(entries, "hsi")
        prot  == FieldSum(entries, "protection")
    IN  IF lines = 0 THEN summary.protectionPercent = "0.0%"
        ELSE summary.protectionPercent
               \in {PercentString(n) : n \in NearestNat(prot * 1000, lines)}

C2_Witness ==
  /\ Rendered
  /\ Len(entries) = 2
  /\ summary.totalLines = 95
  /\ summary.totalProtection = 26
  /\ summary.protectionPercent = "27.4%"

C2_WitnessZeroLines ==
  /\ Rendered
  /\ summary.totalLines = 0
  /\ summary.totalProtection > 0
  /\ summary.protectionPercent = "0.0%"

\* C3: average MRC is "0.00" for the empty entry list, and otherwise the sum
\* of the entries' MRC values divided by the number of entries, rendered
\* with two decimal places (a nearest two-decimal value of the exact mean).
C3_AverageMRC ==
  Rendered =>
    IF Len(entries) = 0 THEN summary.averageMRC = "0.00"
    ELSE summary.averageMRC
           \in {DollarString(n) : n \in NearestNat(FieldSum(entries, "mrc"), Len(entries))}

C3_Witness ==
  /\ Rendered
  /\ Len(entries) = 3
  /\ FieldSum(entries, "mrc") = 8334
  /\ summary.averageMRC = "27.78"

C3_WitnessEmpty == Rendered /\ entries = <<>> /\ summary.averageMRC = "0.00"

\* C4: for the single-entry list {voiceLines 10, bts 5, iot 0, hsi 0,
\* accessories 2.50, protection 3, mrc 50.00} the aggregator yields
\* totalLines = 15, protectionPercent = "20.0%" and averageMRC = "50.00".
C4_Scenario ==
  (Rendered /\ entries = <<ScenarioEntry>>) =>
    /\ summary.totalLines = 15
    /\ summary.protectionPercent = "20.0%"
    /\ summary.averageMRC = "50.00"

C4_Witness == Rendered /\ entries = <<ScenarioEntry>> /\ summary.totalProtection = 3

\* C5: every aggregator output is the same for any permutation of the same
\* entries (it suffices to exchange two neighbours); only the latest-entry
\* card depends on the order, and it shows the entry at index 0.
C5_PermutationInvariant ==
  Rendered =>
    /\ \A i \in 1..(Len(entries) - 1) :
         AggregatorOutputs(Summary(SwapAdjacent(entries, i))) = AggregatorOutputs(summary)
    /\ Len(entries) > 0 => summary.latest = entries[1]

(***************************************************************************)
(* Properties of the tip fetcher.                                          *)
(***************************************************************************)
DiagnosticPrefixes == {"Error: ", "(error) ", "(fetch error) "}

\* a step in which the response resp to the request req is applied
TipReplied(req, resp) == TipReply(req, resp) \/ TipReplyLocal(req, resp)

\* a step in which the tip effect runs for an empty entry list
TipEffectRunsEmpty ==
  /\ Len(entries') = 0
  /\ \/ Mount
     \/ LoadDone(TRUE)
     \/ \E req \in deletes : DeleteReply(req)
     \/ MountLocal
     \/ ClearLocal(TRUE)

\* C6: whenever the entry list is empty when the tip effect runs (first
\* render, empty initial load, after a clear), no tip request is issued for
\* that change and the tip is set to the static add-an-entry prompt.
C6_EmptyListSkipsFetch ==
  [][TipEffectRunsEmpty =>
       /\ tipRequests' = tipRequests
       /\ tipInFlight' = tipInFlight
       /\ tip' = StaticTip]_vars

\* the store page alone keeps C6 (it is the local-storage page that breaks it)
C6_StorePageWitness == variant = "store" /\ mounted /\ ~loading /\ clears = 1
                         /\ entries = <<>> /\ tip = StaticTip /\ tipRequests = 1

\* C7: when the tip endpoint answers with a non-2xx status, or the request
\* fails in transport, the displayed tip becomes a diagnostic string that
\* contains the raw response body (or the raw error text), and no exception
\* escapes the tip fetch.
C7_FailureShowsRawText ==
  [][\A req \in tipInFlight, resp \in Responses :
       (TipReplied(req, resp) /\ (resp.transport \/ ~resp.ok)) =>
          /\ tip'[1] \in DiagnosticPrefixes
          /\ TextContains(tip', IF resp.transport THEN TransportErrorMessage ELSE resp.raw)
          /\ ~unhandled']_vars

C7_Witness ==
  /\ variant = "store"
  /\ tipInFlight = {}
  /\ tip = <<"Error: ", BodyHtml>>
  /\ ~unhandled

C7_WitnessLocal ==
  /\ variant = "local"
  /\ tipInFlight = {}
  /\ tip = <<"(fetch error) ", "TypeError: ", TransportErrorMessage>>

\* C8: when the tip endpoint answers with a success status but the parsed
\* body has no (or an empty) tip field, the displayed tip is a diagnostic
\* placeholder that echoes the raw payload received.
C8_MissingTipEchoesPayload ==
  [][\A req \in tipInFlight, resp \in Responses :
       (TipReplied(req, resp) /\ ~resp.transport /\ resp.ok
          /\ resp.raw \in {BodyNoTip, BodyEmptyTip}) =>
          TextContains(tip', resp.raw)]_vars

\* C9: every tip-fetch invocation, whatever its outcome (transport failure,
\* non-2xx status, unparsable body, missing tip field, success), ends with
\* the displayed tip set to a non-empty string and with the loading flag
\* cleared; no outcome leaves the flag at true or propagates an exception.
C9_FetchAlwaysSettles ==
  [][\A req \in tipInFlight, resp \in Responses :
       TipReplied(req, resp) =>
          /\ TextNonEmpty(tip')
          /\ isLoadingTip' = FALSE
          /\ ~unhandled']_vars

C9_Witness ==
  /\ variant = "store"
  /\ tipInFlight = {}
  /\ tip = <<"Error: ", NullReadMessage>>
  /\ ~isLoadingTip
  /\ ~unhandled

\* C10: each change of the entry list to a non-empty value issues exactly
\* one tip request, and a request that fails is never sent again: the number
\* of tip requests ever issued equals the number of such changes.
C10_OneRequestPerChange == tipRequests = nonEmptyChanges

C10_Witness ==
  /\ tipRequests = 2
  /\ nonEmptyChanges = 2
  /\ clears = 1
  /\ tipInFlight = {}
  /\ tip = <<"Error: ", BodyHtml>>

(***************************************************************************)
(* Overlapping tip requests.                                               *)
(***************************************************************************)
\* C11: tip requests are not queued, de-duplicated or cancelled: when the
\* entry list changes to a non-empty list while a tip request is in flight,
\* a further request is issued in the same step and every request that was
\* in flight still is.
C11_OverlappingRequests ==
  [][(tipInFlight # {} /\ entries' # entries /\ Len(entries') > 0) =>
       /\ tipInFlight \subseteq tipInFlight'
       /\ Cardinality(tipInFlight') = Cardinality(tipInFlight) + 1
       /\ tipRequests' = tipRequests + 1
       /\ \E req \in tipInFlight' \ tipInFlight : req.entries = entries']_vars

C11_Witness ==
  /\ variant = "store"
  /\ Cardinality(tipInFlight) = 2
  /\ \E a \in tipInFlight, b \in tipInFlight : a.id < b.id /\ b.entries = entries

\* C12: each response is applied to the displayed tip as it arrives, whatever
\* the order in which the requests were issued: the reply to a request sets
\* the tip to the text of its response also when later requests are still in
\* flight or were answered before it, so the tip shown once all requests
\* have resolved is that of the response that resolved last.
C12_LastResolvedWins ==
  [][\A req \in tipInFlight, resp \in Responses :
       (variant = "store" /\ tipInFlight' = tipInFlight \ {req}
          /\ tipRequests' = tipRequests /\ isLoadingTip' = FALSE
          /\ tip' = FetchTip(resp).tip /\ tipFrom' = req.id)
       \/ ~TipReply(req, resp)]_vars

\* all requests have resolved and the tip shown is the one computed for an
\* older entry list: the first request resolved after the second
C12_Witness ==
  /\ variant = "store"
  /\ tipRequests = 2
  /\ tipInFlight = {}
  /\ tipFrom = 1
  /\ Len(entries) = 2
  /\ tip = <<"Upsell accessories today.">>

(***************************************************************************)
(* Data-store failures and the entry list.                                 *)
(***************************************************************************)
\* C13: when the store insert fails on submit, the in-memory entry list is
\* left unchanged (nothing is prepended), the form keeps its values, and no
\* tip request is triggered.
C13_InsertFailureLeavesList ==
  [][\A req \in inserts :
       InsertError(req) =>
         /\ entries' = entries
         /\ form' = form
         /\ tipRequests' = tipRequests
         /\ tipInFlight' = tipInFlight
         /\ tip' = tip]_vars

\* the only submit so far has failed: the list is still empty, the form
\* still holds the submitted values and no tip request was ever sent
C13_Witness ==
  /\ variant = "store"
  /\ submits = 1
  /\ inserts = {}
  /\ "Insert error: " \o StoreErrorMessage \in consoleErrors
  /\ entries = <<>>
  /\ form = ScenarioEntry
  /\ tipRequests = 0

\* every entry of the list before the step is in the list after it, at the
\* same distance from the end
\* the Login instance that sent the request is the one on the screen
OnScreen(req) == location = "/login" /\ loginPage = req.page

\* C14: every failure ends in a message shown to the user: bad credentials
\* and a transport failure at login, and a tip-fetch failure, show inline text,
\* and a store insert error and a store delete error are each logged and
\* raised as an alert.
C14_EveryFailureShown ==
  [][/\ \A req \in logins : \A resp \in LoginResponses(req) :
          (LoginReply(req, resp) /\ OnScreen(req) /\ resp.status \notin 200..299) =>
             loginError' # <<>> /\ loginError' # <<"">>
     /\ \A req \in tipInFlight, resp \in Responses :
          (TipReplied(req, resp) /\ (resp.transport \/ ~resp.ok)) => TextNonEmpty(tip')
     /\ \A req \in inserts :
          InsertError(req) =>
             /\ consoleErrors' # {}
             /\ alerts' # alerts
     /\ \A req \in deletes :
          DeleteError(req) =>
             /\ consoleErrors' # {}
             /\ "Could not clear database:\n" \o StoreErrorMessage \in alerts']_vars

KeepsEntries ==
  /\ Len(entries') >= Len(entries)
  /\ \A i \in 1..Len(entries) :
        entries'[Len(entries') - Len(entries) + i] = entries[i]

\* C15: the in-memory entry list loses entries only through a clear-all that
\* the user confirmed and whose store delete succeeded, and the list is then
\* empty; when the user cancels the confirmation no delete request is sent,
\* and when the delete fails the list is unchanged.
C15_OnlyConfirmedClearRemoves ==
  [][/\ ~KeepsEntries =>
          /\ entries' = <<>>
          /\ \E req \in deletes : req.done /\ DeleteReply(req)
     /\ ClearDatabase(FALSE) =>
          deletes' = deletes /\ store' = store /\ entries' = entries
     /\ \A confirmed \in BOOLEAN :
          (ClearDatabase(confirmed) /\ deletes' # deletes) => confirmed
     /\ \A req \in deletes : DeleteError(req) => entries' = entries]_vars

\* a confirmed clear-all has emptied the store and then the list
C15_Witness ==
  /\ variant = "store"
  /\ clears = 1
  /\ deletes = {}
  /\ alerts = {}
  /\ submits = 1
  /\ inserts = {}
  /\ store = <<>>
  /\ entries = <<>>

\* the delete failed: the alert is up and the list still has its entries
C15_WitnessDeleteFailed ==
  /\ variant = "store"
  /\ clears = 1
  /\ deletes = {}
  /\ alerts # {}
  /\ Len(entries) = 2

\* C16: a successful submit puts the new entry at index 0 of the in-memory
\* list and leaves every existing entry unchanged and in the same relative
\* order; no step modifies an entry that is in the list: a step keeps the
\* entries where they are, or empties the list.
C16_PrependOnly ==
  [][/\ \A req \in inserts :
          InsertReply(req) => entries' = <<req.values>> \o entries
     /\ KeepsEntries \/ entries' = <<>>]_vars

\* a submit has put its entry in front of the entry of the initial load
C16_Witness ==
  /\ variant = "store"
  /\ submits = 1
  /\ inserts = {}
  /\ entries = <<Entry("2024-01-05", 1, 2, 3, 4, 1999, 1, "Mix", 3333),
                 MappedRow(RowOf(ScenarioEntry))>>

(***************************************************************************)
(* The order of the in-memory list.                                        *)
(***************************************************************************)
\* the place of an entry's row in the table, if the entry and the row are
\* each the only one with these values: the table is kept newest first
RowPlaces(k) ==
  {p \in 1..Len(store) :
     /\ store[p] = RowOf(entries[k])
     /\ \A q \in 1..Len(store) : store[q] = store[p] => q = p
     /\ \A m \in 1..Len(entries) : RowOf(entries[m]) = store[p] => m = k}

\* C17: after any sequence of initial load, submits and clears, two submits
\* with their inserts in flight together included, the in-memory list is
\* newest-first: an entry whose row the store created later than another
\* entry's never stands after it in the list.
C17_NewestFirst ==
  \A i, j \in 1..Len(entries) :
    \A p \in RowPlaces(i), q \in RowPlaces(j) : i < j => p < q

(***************************************************************************)
(* The login endpoint.                                                     *)
(***************************************************************************)
\* what the claims call a missing member, a known username, the right password
Missing(v) == v = Undefined \/ v = Str("")
UsernameExists(v) == v \in {Str("admin")}
PasswordMatches(v) == v = Str("password123")

\* C20: the login endpoint returns a token only when the username exists and
\* the submitted password matches its stored hash; an unknown username or a
\* wrong password yields 401 with no token, and a missing username or
\* password yields 400 with no token.
C20_TokenOnlyOnMatch ==
  (apiAnswer # <<>> /\ apiRequest[1].method = "POST") =>
    LET req == apiRequest[1]
        answer == apiAnswer[1]
    IN  /\ answer.token # <<>> =>
              UsernameExists(req.username) /\ PasswordMatches(req.password)
        /\ (Missing(req.username) \/ Missing(req.password)) =>
              answer.status = 400 /\ answer.token = <<>>
        /\ (/\ ~Missing(req.username) /\ ~Missing(req.password)
            /\ ~(UsernameExists(req.username) /\ PasswordMatches(req.password))) =>
              answer.status = 401 /\ answer.token = <<>>

(***************************************************************************)
(* Login and the routes.                                                   *)
(***************************************************************************)
WrongPassword(req) == req.username = "admin" /\ req.password # "password123"

\* C18: a login attempt with a wrong password gets a 401 response, stores no
\* token in browser storage, shows the error inline, and leaves the dashboard
\* route redirecting to the login page.
C18_WrongPassword ==
  [][\A req \in logins :
       WrongPassword(req) =>
         /\ \A answer \in LoginAnswers(req) : answer.status = 401
         /\ \A answer \in LoginAnswers(req) :
              LoginReply(req, answer) =>
                /\ authToken' = authToken
                /\ OnScreen(req) =>
                     loginError' \in {<<"Invalid credentials.">>,
                                      <<"Invalid username or password">>}
                /\ ~TokenPresent(authToken) =>
                     Resolve("/tracker", authToken') = "/login"]_vars

\* the wrong password was answered: the error is on the Login page, nothing is
\* stored, and the tracker path leads back to the Login page
C18_Witness ==
  /\ variant = "none"
  /\ loginAttempts = 1 /\ logins = {}
  /\ username = "admin" /\ password = "letmein"
  /\ loginError = <<"Invalid credentials.">>
  /\ authToken = <<>>
  /\ location = "/login"
  /\ Resolve("/tracker", authToken) = "/login"

\* C19: the dashboard is rendered only when a token is present in browser
\* storage at the time the route is evaluated: with no token both the tracker
\* route and the catch-all route redirect to the login page, and with a token
\* the catch-all route redirects to the tracker.
C19_DashboardNeedsToken ==
  /\ location = "/tracker" => TokenPresent(authToken)
  /\ ~TokenPresent(authToken) =>
       /\ RouteElement("/tracker", authToken) = Navigate("/login")
       /\ \A path \in PathPool \ {"/login", "/tracker"} :
            RouteElement(path, authToken) = Navigate("/login")
  /\ TokenPresent(authToken) =>
       /\ RouteElement("/tracker", authToken) = RenderPage("/tracker")
       /\ \A path \in PathPool \ {"/login", "/tracker"} :
            RouteElement(path, authToken) = Navigate("/tracker")

\* the user has logged in with the form and the tracker is rendered
C19_Witness ==
  /\ variant = "none"
  /\ location = "/tracker"
  /\ loginAttempts = 1 /\ logins = {}
  /\ TokenPresent(authToken)

\* the user has logged out: no token, the Login page again
C19_WitnessNoToken ==
  /\ variant = "none"
  /\ location = "/login"
  /\ loginAttempts = 1 /\ logins = {}
  /\ loginPage = 2
  /\ authToken = <<>>


(***************************************************************************)
(* The form of the store page: what is typed, and its validation.          *)
(***************************************************************************)
\* a text typed into a field is the sequence of its characters
Digits == {"0", "1", "2", "3", "4", "5", "6", "7", "8", "9"}

\* /^\d+$/
MatchWhole(text) == Len(text) >= 1 /\ \A i \in 1..Len(text) : text[i] \in Digits

\* /^\d+(\.\d{1,2})?$/
MatchDollars(text) ==
  \E k \in 1..Len(text) :
    /\ MatchWhole(SubSeq(text, 1, k))
    /\ \/ k = Len(text)
       \/ /\ text[k + 1] = "."
          /\ Len(text) - (k + 1) \in 1..2
          /\ MatchWhole(SubSeq(text, k + 2, Len(text)))

\* /^\d{4}-\d{2}-\d{2}$/
MatchDate(text) ==
  /\ Len(text) = 10
  /\ \A i \in {1, 2, 3, 4, 6, 7, 9, 10} : text[i] \in Digits
  /\ text[5] = "-" /\ text[8] = "-"

\* z.string().nonempty()
NonEmpty(text) == Len(text) >= 1

performanceFormSchema_anyPlan(raw) ==
  /\ NonEmpty(raw.date) /\ MatchDate(raw.date)
  /\ \A field \in {"voiceLines", "bts", "iot", "hsi", "protection"} : MatchWhole(raw[field])
  /\ \A field \in {"accessories", "mrc"} : MatchDollars(raw[field])
performanceFormSchema(raw) ==
  /\ NonEmpty(raw.date) /\ MatchDate(raw.date)
  /\ \A field \in {"voiceLines", "bts", "iot", "hsi", "protection"} : MatchWhole(raw[field])
  /\ \A field \in {"accessories", "mrc"} : MatchDollars(raw[field])
  /\ NonEmpty(raw.planName)

\* the text as one string
RECURSIVE Join(_)
Join(text) == IF text = <<>> THEN "" ELSE Head(text) \o Join(Tail(text))

DigitValue(c) == CHOOSE n \in 0..9 : ToString(n) = c

\* the whole number a text of digits denotes
RECURSIVE WholeOf(_)
WholeOf(text) ==
  IF text = <<>> THEN 0
  ELSE 10 * WholeOf(SubSeq(text, 1, Len(text) - 1)) + DigitValue(text[Len(text)])

\* the cents a dollar text denotes
CentsOf(text) ==
  LET dot == {i \in 1..Len(text) : text[i] = "."}
  IN  IF dot = {} THEN 100 * WholeOf(text)
      ELSE LET k == CHOOSE i \in dot : TRUE
               cents == SubSeq(text, k + 1, Len(text))
           IN  100 * WholeOf(SubSeq(text, 1, k - 1))
                 + (IF Len(cents) = 1 THEN 10 * WholeOf(cents) ELSE WholeOf(cents))

\* the validated values, as the entries of this model hold them
ParseForm(raw) ==
  Entry(Join(raw.date), WholeOf(raw.voiceLines), WholeOf(raw.bts), WholeOf(raw.iot),
        WholeOf(raw.hsi), CentsOf(raw.accessories), WholeOf(raw.protection),
        Join(raw.planName), CentsOf(raw.mrc))

\* what the user typed for the entry "Mix" of FormPool
RawMix ==
  [date |-> <<"2", "0", "2", "4", "-", "0", "1", "-", "0", "5">>,
   voiceLines |-> <<"1">>, bts |-> <<"2">>, iot |-> <<"3">>, hsi |-> <<"4">>,
   accessories |-> <<"1", "9", ".", "9", "9">>, protection |-> <<"1">>,
   planName |-> <<"M", "i", "x">>, mrc |-> <<"3", "3", ".", "3", "3">>]

\* texts typed into one field
DateTexts ==
  {<<>>, <<"2", "0", "2", "4", "-", "1", "-", "5">>,
   <<"0", "5", "/", "0", "1", "/", "2", "0", "2", "4">>,
   <<"2", "0", "2", "4", "-", "0", "1", "-", "0", "5", " ">>}
WholeTexts == {<<>>, <<"-", "1">>, <<"1", ".", "5">>, <<"1", "e", "3">>, <<" ", "1">>, <<"0", "7">>}
DollarTexts ==
  {<<>>, <<"1", "9", ".", "9", "9", "9">>, <<"1", "9", ".">>, <<".", "5">>, <<"$", "5">>,
   <<"1", "9", ".", "9">>}
PlanTexts == {<<>>, <<" ">>}

\* the forms submitted: the form of "Mix", and that form with one field retyped
RawForms ==
  {RawMix}
    \cup {[RawMix EXCEPT !.date = text] : text \in DateTexts}
    \cup {[RawMix EXCEPT !.voiceLines = text] : text \in WholeTexts}
    \cup {[RawMix EXCEPT ![field] = <<>>] : field \in {"bts", "iot", "hsi", "protection"}}
    \cup {[RawMix EXCEPT !.accessories = text] : text \in DollarTexts}
    \cup {[RawMix EXCEPT !.mrc = <<"3", "3", ".", "3", "3", "3">>]}
    \cup {[RawMix EXCEPT !.planName = text] : text \in PlanTexts}

\* the form is submitted: formHook.handleSubmit validates what was typed and
\* calls the callback only with values that pass; else it shows the messages
FormSubmit(raw) ==
  IF performanceFormSchema(raw)
  THEN Submit(ParseForm(raw))
  ELSE /\ variant = "store"
       /\ location = "/tracker"
       /\ mounted /\ ~loading
       /\ submits + clears < MaxOps
       /\ submits' = submits + 1
       /\ UNCHANGED <<variant, authVars, noticeVars, pageVars, summary, storeVars, tipVars,
                      clears, form>>

NextForm ==
  \/ Mount
  \/ \E ok \in BOOLEAN : LoadDone(ok)
  \/ \E raw \in RawForms : FormSubmit(raw)
  \/ \E req \in inserts : StoreInsert(req)
  \/ \E req \in inserts : InsertError(req)
  \/ \E req \in inserts : InsertReply(req)

\* the tip requests this starts stay unanswered here
SpecForm == Init /\ [][NextForm]_vars

\* what the claim calls a well-formed field, read off the typed text
AllDigits(text) == text # <<>> /\ {text[i] : i \in 1..Len(text)} \subseteq Digits
WellFormed(raw) ==
  /\ Len(raw.date) = 10
  /\ SubSeq(raw.date, 1, 4) \in [1..4 -> Digits]
  /\ SubSeq(raw.date, 6, 7) \in [1..2 -> Digits]
  /\ SubSeq(raw.date, 9, 10) \in [1..2 -> Digits]
  /\ <<raw.date[5], raw.date[8]>> = <<"-", "-">>
  /\ AllDigits(raw.voiceLines) /\ AllDigits(raw.bts) /\ AllDigits(raw.iot)
  /\ AllDigits(raw.hsi) /\ AllDigits(raw.protection)
  /\ \A field \in {"accessories", "mrc"} :
        \/ AllDigits(raw[field])
        \/ \E k \in 1..2 :
              /\ Len(raw[field]) > k + 1
              /\ raw[field][Len(raw[field]) - k] = "."
              /\ AllDigits(SubSeq(raw[field], 1, Len(raw[field]) - k - 1))
              /\ AllDigits(SubSeq(raw[field], Len(raw[field]) - k + 1, Len(raw[field])))
  /\ raw.planName # <<>>

\* C22: a submission issues an insert only if every field passed validation
\* (a YYYY-MM-DD date, whole-number counts, dollar amounts with at most two
\* decimals, a non-empty plan name); a submission with a malformed field
\* issues no insert and leaves the list and the store unchanged.
C22_OnlyValidFormsInserted ==
  [][\A raw \in RawForms :
       FormSubmit(raw) =>
         IF WellFormed(raw)
         THEN inserts' = inserts \cup {[id |-> submits + 1, values |-> ParseForm(raw), done |-> FALSE]}
         ELSE inserts' = inserts /\ entries' = entries /\ store' = store]_vars

\* two forms were submitted and no insert failed: the malformed one left
\* nothing, the well-formed one is in the list and in the store
C22_Witness ==
  /\ submits = 2
  /\ inserts = {} /\ consoleErrors = {}
  /\ Len(entries) = 1 /\ entries[1] = ParseForm(RawMix)
  /\ Len(store) = 1

(***************************************************************************)
(* Claims about the tip endpoint.                                          *)
(***************************************************************************)
\* the request was answered
TipAnswered == apiRequest # <<>> /\ apiAnswer # <<>>

\* C21: when the call to the completion service fails, the tip endpoint
\* answers with status 200 and the static fallback tip, not with an error
\* status or an error member.
C21_FallbackOnFailure ==
  (TipAnswered /\ apiAnswer[1].called /\ apiRequest[1].ai.kind = "rejected")
     => /\ apiAnswer[1].status = 200
        /\ apiAnswer[1].tip = <<FallbackTip>>
        /\ apiAnswer[1].error = <<>>

\* C23: when the body has no entries member, or an empty list of entries,
\* the tip endpoint answers with status 200 and the static add-an-entry tip,
\* and does not call the completion service.
C23_EmptyEntriesShortcut ==
  (TipAnswered /\ apiRequest[1].method = "POST"
               /\ apiRequest[1].entries \in {Undefined, Arr("0")})
     => /\ apiAnswer[1].status = 200
        /\ apiAnswer[1].tip = <<AddEntryTip>>
        /\ ~apiAnswer[1].called

\* C30: the answer of the tip endpoint does not depend on the Authorization
\* header: the same request with any other header (a valid token, an invalid
\* one, none) gets the same status and the same tip.
C30_HeaderIgnored ==
  TipAnswered =>
    \A header \in AuthorizationPool :
      LET other == TipEndpoint(deployment, [apiRequest[1] EXCEPT !.authorization = header])
      IN  /\ other.status = apiAnswer[1].status
          /\ other.tip = apiAnswer[1].tip

\* a request without a token, and one with an invalid token, got a tip
\* written by the completion service
C30_Witness ==
  /\ TipAnswered
  /\ deployment = "express"
  /\ apiRequest[1].authorization = <<>>
  /\ apiAnswer[1].status = 200
  /\ apiAnswer[1].tip = <<<<"Upsell accessories today.">>>>

C30_WitnessInvalid ==
  /\ TipAnswered
  /\ apiRequest[1].authorization = <<"Bearer", "bogus">>
  /\ apiAnswer[1].status = 200
  /\ apiAnswer[1].called

(***************************************************************************)
(* Claims about requests of the store page that overlap.                   *)
(***************************************************************************)
\* C25: the tip loading flag is true whenever at least one tip request is in
\* flight: the response to an earlier request does not clear the flag while
\* a later request is still outstanding.
C25_LoadingWhileInFlight == tipInFlight # {} => isLoadingTip

\* C26: whenever the entry list is empty and no tip request is in flight,
\* the displayed tip is the static add-an-entry prompt: the response to a
\* request issued before a clear-all never replaces the prompt set by that
\* clear.
C26_PromptWhenEmpty ==
  (mounted /\ ~loading /\ entries = <<>> /\ tipInFlight = {}) => tip = StaticTip

\* the initial load answered with the rows
LoadSucceeded == mounted /\ ~loading /\ ("Fetch error: " \o StoreErrorMessage) \notin consoleErrors

\* C27: with a single client, whenever no insert or delete request is
\* outstanding the list holds exactly as many entries as the store: a submit
\* and a clear-all whose requests overlap leave no entry in the store that
\* is absent from the list, nor one in the list that is absent from the
\* store.
C27_ListMatchesStore ==
  (LoadSucceeded /\ inserts = {} /\ deletes = {}) => Len(entries) = Len(store)

(***************************************************************************)
(* Claims about what a reload keeps of the submitted entries.              *)
(***************************************************************************)
\* the entries a reload makes of submitted entries: each is inserted as a
\* row, and the rows are selected and mapped
Reloaded(es) == Mapped([i \in 1..Len(es) |-> RowOf(es[i])])

\* C29: an entry is persisted with one lines value, the sum of its four
\* channel counts, and is reloaded with voice lines equal to that sum and
\* BTS, IoT and HSI equal to 0; so total lines and total protection of the
\* reloaded entries equal those of the submitted entries, while the totals
\* per channel are not kept: all lines are counted as voice lines.
C29_TotalsSurviveReload ==
  summary # NotRendered =>
    \A rows \in {[i \in 1..Len(entries) |-> RowOf(entries[i])]} :
    \A again \in {Reloaded(entries)} :
    \A back \in {Summary(again)} :
        /\ \A i \in 1..Len(entries) :
             LET e == entries[i]
                 sum == e.voiceLines + e.bts + e.iot + e.hsi
             IN  /\ rows[i].lines = sum
                 /\ again[i].voiceLines = sum
                 /\ again[i].bts = 0
                 /\ again[i].iot = 0
                 /\ again[i].hsi = 0
        /\ back.totalLines = summary.totalLines
        /\ back.totalProtection = summary.totalProtection
        /\ back.totalVoiceLines = summary.totalLines
        /\ back.totalBts = 0 /\ back.totalIot = 0 /\ back.totalHsi = 0

\* the statistics of several entries with lines of more than one channel
C29_Witness ==
  /\ summary # NotRendered
  /\ Len(entries) = MaxEntries
  /\ summary.totalBts > 0 /\ summary.totalIot > 0 /\ summary.totalHsi > 0
  /\ summary.totalLines > summary.totalVoiceLines

(***************************************************************************)
(* Claims about logging out.                                               *)
(***************************************************************************)
\* a login request is answered with a token, which is stored
LoginSucceeds ==
  \E req \in logins : \E resp \in LoginResponses(req) :
    /\ LoginReply(req, resp)
    /\ resp.status = 200 /\ resp.token # <<>>
    /\ authToken' = resp.token

\* C24: logout removes the stored token and navigates to the login page;
\* from then on the dashboard route redirects to login (the tracker is not
\* shown) until a login attempt succeeds and stores a new token.
C24_LoggedOutUntilLogin ==
  [][/\ Logout => (authToken' = <<>> /\ location' = "/login")
     /\ ~TokenPresent(authToken') =>
          (location' # "/tracker" /\ Resolve("/tracker", authToken') = "/login")
     /\ (~TokenPresent(authToken) /\ TokenPresent(authToken')) => LoginSucceeds]_vars

\* the user logged in and out again while a second request of the first
\* Login page was still unanswered
C24_Witness ==
  /\ location = "/login"
  /\ authToken = <<>>
  /\ loginPage = 2
  /\ \E req \in logins : req.page = 1

(***************************************************************************)
(* Claims about the initial load of the store page.                        *)
(***************************************************************************)
\* the initial load fails in this step
LoadFails ==
  /\ ("Fetch error: " \o StoreErrorMessage) \notin consoleErrors
  /\ ("Fetch error: " \o StoreErrorMessage) \in consoleErrors'

\* C28: no submit, clear-all or logout occurs before the initial load has
\* completed, so the result of the initial load never overwrites an entry
\* added by a submit; if the initial load fails the list stays empty and
\* loading still ends.
C28_NothingBeforeLoad ==
  [][/\ (submits' # submits \/ clears' # clears \/ location' # location)
          => (mounted /\ ~loading)
     /\ (loading /\ ~loading')
          => /\ submits = 0 /\ clears = 0 /\ inserts = {} /\ deletes = {}
             /\ entries = <<>>
             /\ entries' \in {Mapped(store), <<>>}
     /\ LoadFails => (entries' = <<>> /\ ~loading')
     /\ ~loading => ~loading']_vars

\* the initial load failed, and the entry of a later submit is in the list
C28_Witness ==
  /\ ("Fetch error: " \o StoreErrorMessage) \in consoleErrors
  /\ ~loading
  /\ submits = 1 /\ inserts = {}
  /\ Len(entries) = 1

\* the user logged out of the loaded page
C28_WitnessLogout ==
  /\ variant = "store"
  /\ location = "/login" /\ authToken = <<>>
  /\ mounted /\ ~loading

====
